---- MODULE Spec2Model ----
(***************************************************************************)
(* One ingestion run of pg-vector-embed-rust: run_embedding_load fetches   *)
(* the embeddings on the caller's thread, parses the dimension, spawns the *)
(* "embedding_thread" that persists them, and returns the join handle.     *)
(* Strings whose characters matter (the dimension) are tuples of           *)
(* one-character strings, so that parsing is computed, not assumed.        *)
(***************************************************************************)
EXTENDS Integers, Sequences, FiniteSets, TLC

VARIABLES
    args,           \* the caller's arguments: embed_model, input_list, dimension
    cell,           \* the Arc<RwLock<EmbedRequest>>: value, readers, writer, poisoned
    callerPc,       \* position of run_embedding_load on the caller's thread
    fetchGuard,     \* fetch_embedding holds a read guard on the cell
    fetchOutcome,   \* how the fetch ended
    embed_response, \* the EmbedResponse fetch_embedding returned
    dim,            \* the parsed dimension (i32)
    spawnResult,    \* io::Result of thread::Builder::spawn
    result,         \* what run_embedding_load returned: "Ok" (the handle) or "Err"
    handle,         \* the JoinHandle in the caller's hands
    unit,           \* the spawned closure: its position, its captured values, its guard
    conn,           \* the postgres Client of the closure
    db,             \* the vector table in the database
    db0,            \* the vector table before the run
    events,         \* the operations performed so far, in order, with their context
    logs            \* the error! records written so far

vars == <<args, cell, callerPc, fetchGuard, fetchOutcome, embed_response, dim,
          spawnResult, result, handle, unit, conn, db, db0, events, logs>>

----------------------------------------------------------------------------
(* Bounds of the model *)

MaxInputs == 2
MaxEmbeddings == 2

(* i32 *)
I32Max == 2147483647
I32Min == (-2147483647) - 1

Models == {"nomic-embed-text"}
Texts == {"dog", "cat"}
\* an embedding vector is abstracted to a tuple of small numbers; its length
\* is what the vector column's width is compared with
Vectors == {<<1>>, <<1, 2>>}

SeqUpTo(S, n) == UNION {[1..k -> S] : k \in 0..n}

\* dimension strings the caller may pass
DimStrings ==
    { <<"2">>, <<"+", "2">>, <<"0">>, <<"-", "1">>,
      <<"a", "b", "c">>, <<>>, <<" ", "2">>,
      <<"2","1","4","7","4","8","3","6","4","7">>,
      <<"2","1","4","7","4","8","3","6","4","8">>,
      <<"-","2","1","4","7","4","8","3","6","4","9">> }

----------------------------------------------------------------------------
(* dimension.parse::<i32>() *)

Digits == {"0", "1", "2", "3", "4", "5", "6", "7", "8", "9"}

DigitVal(c) ==
    CASE c = "0" -> 0 [] c = "1" -> 1 [] c = "2" -> 2 [] c = "3" -> 3
      [] c = "4" -> 4 [] c = "5" -> 5 [] c = "6" -> 6 [] c = "7" -> 7
      [] c = "8" -> 8 [] c = "9" -> 9

ParseErr == [ok |-> FALSE, val |-> 0]

\* accumulate the digits of s from position i on; neg accumulates downwards
\* as the library does, so that i32::MIN parses; every step is checked
RECURSIVE ParseDigits(_, _, _, _)
ParseDigits(s, i, acc, neg) ==
    IF i > Len(s) THEN [ok |-> TRUE, val |-> acc]
    ELSE IF s[i] \notin Digits THEN ParseErr
    ELSE LET d == DigitVal(s[i]) IN
         IF neg
         THEN IF acc < -(I32Max \div 10) THEN ParseErr
              ELSE IF acc * 10 < I32Min + d THEN ParseErr
              ELSE ParseDigits(s, i + 1, acc * 10 - d, neg)
         ELSE IF acc > I32Max \div 10 THEN ParseErr
              ELSE IF acc * 10 > I32Max - d THEN ParseErr
              ELSE ParseDigits(s, i + 1, acc * 10 + d, neg)

ParseI32(s) ==
    IF Len(s) = 0 THEN ParseErr
    ELSE IF s[1] \in {"+", "-"}
         THEN IF Len(s) = 1 THEN ParseErr
              ELSE ParseDigits(s, 2, 0, s[1] = "-")
         ELSE ParseDigits(s, 1, 0, FALSE)

----------------------------------------------------------------------------
(* config.rs *)

NoRequest == [model |-> "", input |-> <<>>, metadata |-> "None"]

EmbedRequest(model, input) ==
    [model |-> model, input |-> input, metadata |-> "Some"]

\* EmbedResponse { model: "".to_string(), embeddings: vec![] }
EmptyResponse == [model |-> "", embeddings |-> <<>>]

NewArcEmbedRequest(model, input) ==
    [value |-> EmbedRequest(model, input), readers |-> 0,
     writer |-> FALSE, poisoned |-> FALSE]

----------------------------------------------------------------------------
NoTable == [exists |-> FALSE, dim |-> 0, rows |-> <<>>]

NoUnit == [pc |-> "none", state |-> "none", dim |-> 0, embeddings |-> <<>>,
           guard |-> FALSE, read |-> NoRequest, persist |-> "none"]

Ev(ctx, op) == <<ctx, op>>

Init ==
    /\ args \in [embed_model : Models,
                 input_list : SeqUpTo(Texts, MaxInputs),
                 dimension : DimStrings]
    /\ cell = [value |-> NoRequest, readers |-> 0, writer |-> FALSE, poisoned |-> FALSE]
    /\ callerPc = "start"
    /\ fetchGuard = FALSE
    /\ fetchOutcome = "none"
    /\ embed_response = EmptyResponse
    /\ dim = 0
    /\ spawnResult = "none"
    /\ result = "none"
    /\ handle = "none"
    /\ unit = NoUnit
    /\ conn = "none"
    /\ db \in {NoTable, [exists |-> TRUE, dim |-> 1, rows |-> <<>>]}
    /\ db0 = db
    /\ events = <<>>
    /\ logs = {}


----------------------------------------------------------------------------
(* Collaborators: the embedding service and the vector store adapter *)

Min(a, b) == IF a < b THEN a ELSE b

\* what the embedding service may answer to a request that succeeds
Responses(req) ==
    [model : {req.model}, embeddings : SeqUpTo(Vectors, MaxEmbeddings)]

FetchFailures == {"transport", "status", "malformed"}

\* vectordb::pg_vector::create_table: create the table if it is absent
EnsureTable(t, d, fail) ==
    IF fail THEN [ok |-> FALSE, db |-> t]
    ELSE IF t.exists THEN [ok |-> TRUE, db |-> t]
    ELSE IF d <= 0 THEN [ok |-> FALSE, db |-> t]
    ELSE [ok |-> TRUE, db |-> [exists |-> TRUE, dim |-> d, rows |-> <<>>]]

\* the rows of the overlapping prefix the table accepts
RECURSIVE RowsFrom(_, _, _, _)
RowsFrom(t, input, embeddings, i) ==
    IF i > Min(Len(input), Len(embeddings)) THEN <<>>
    ELSE (IF t.exists /\ Len(embeddings[i]) = t.dim
          THEN << <<input[i], embeddings[i]>> >> ELSE <<>>)
         \o RowsFrom(t, input, embeddings, i + 1)

\* vectordb::pg_vector::load_vector_data: one independent write per row
InsertRows(t, req, embeddings, fail) ==
    IF fail THEN [ok |-> FALSE, db |-> t]
    ELSE LET new == RowsFrom(t, req.input, embeddings, 1) IN
         [ok |-> Len(new) = Min(Len(req.input), Len(embeddings)),
          db |-> [t EXCEPT !.rows = t.rows \o new]]

----------------------------------------------------------------------------
(* run_embedding_load, on the caller's thread *)

BuildRequest ==
    /\ callerPc = "start"
    /\ cell' = NewArcEmbedRequest(args.embed_model, args.input_list)
    /\ callerPc' = "fetch_lock"
    /\ UNCHANGED <<args, fetchGuard, fetchOutcome, embed_response, dim, spawnResult,
                   result, handle, unit, conn, db, db0, events, logs>>

\* fetch_embedding, up to the await: embed_data.read()
FetchAcquireRead ==
    /\ callerPc = "fetch_lock"
    /\ ~cell.writer
    /\ IF cell.poisoned
       THEN /\ logs' = logs \cup {"fetch_lock"}
            /\ fetchOutcome' = "lock_failed"
            /\ embed_response' = EmptyResponse
            /\ callerPc' = "parse"
            /\ UNCHANGED <<cell, fetchGuard, events>>
       ELSE /\ cell' = [cell EXCEPT !.readers = @ + 1]
            /\ fetchGuard' = TRUE
            /\ callerPc' = "fetching"
            /\ events' = Append(events, <<"caller", "fetch_start", cell.value>>)
            /\ UNCHANGED <<logs, fetchOutcome, embed_response>>
    /\ UNCHANGED <<args, dim, spawnResult, result, handle, unit, conn, db, db0>>

\* fetch_embedding answering a failure with a response that still names the model
FetchComplete_NamedFailure(outcome, resp) ==
    /\ callerPc = "fetching"
    /\ fetchOutcome' = outcome
    /\ IF outcome = "ok"
       THEN /\ embed_response' = resp
            /\ logs' = logs
       ELSE /\ embed_response' = [model |-> cell.value.model, embeddings |-> <<>>]
            /\ logs' = logs \cup {"fetch"}
    /\ cell' = [cell EXCEPT !.readers = @ - 1]
    /\ fetchGuard' = FALSE
    /\ events' = Append(events, Ev("caller", "fetch_done"))
    /\ callerPc' = "parse"
    /\ UNCHANGED <<args, dim, spawnResult, result, handle, unit, conn, db, db0>>

\* fetch_embedding's failure handed on with `?`: run_embedding_load returns Err
FetchComplete_Propagates(outcome, resp) ==
    /\ callerPc = "fetching"
    /\ fetchOutcome' = outcome
    /\ IF outcome = "ok"
       THEN /\ embed_response' = resp
            /\ logs' = logs
            /\ callerPc' = "parse"
            /\ result' = result
       ELSE /\ embed_response' = EmptyResponse
            /\ logs' = logs \cup {"fetch"}
            /\ callerPc' = "returned"
            /\ result' = "Err"
    /\ cell' = [cell EXCEPT !.readers = @ - 1]
    /\ fetchGuard' = FALSE
    /\ events' = Append(events, Ev("caller", "fetch_done"))
    /\ UNCHANGED <<args, dim, spawnResult, handle, unit, conn, db, db0>>

\* fetch_embedding returning while its read guard is still alive
FetchComplete_KeepsGuard(outcome, resp) ==
    /\ callerPc = "fetching"
    /\ fetchOutcome' = outcome
    /\ IF outcome = "ok"
       THEN /\ embed_response' = resp
            /\ logs' = logs
       ELSE /\ embed_response' = EmptyResponse
            /\ logs' = logs \cup {"fetch"}
    /\ events' = Append(events, Ev("caller", "fetch_done"))
    /\ callerPc' = "parse"
    /\ UNCHANGED <<args, cell, fetchGuard, dim, spawnResult, result, handle, unit,
                   conn, db, db0>>

\* fetch_embedding, from the await to its return; the read guard is dropped
\* when the function returns
FetchComplete(outcome, resp) ==
    /\ callerPc = "fetching"
    /\ fetchOutcome' = outcome
    /\ IF outcome = "ok"
       THEN /\ embed_response' = resp
            /\ logs' = logs
       ELSE /\ embed_response' = EmptyResponse
            /\ logs' = logs \cup {"fetch"}
    /\ cell' = [cell EXCEPT !.readers = @ - 1]
    /\ fetchGuard' = FALSE
    /\ events' = Append(events, Ev("caller", "fetch_done"))
    /\ callerPc' = "parse"
    /\ UNCHANGED <<args, dim, spawnResult, result, handle, unit, conn, db, db0>>

CreateEmbedRequest ==
    \E outcome \in {"ok"} \cup FetchFailures :
        \E resp \in Responses(cell.value) : FetchComplete(outcome, resp)

\* the parse failure handed on with `?`: run_embedding_load returns Err
ParseDimension_Aborts ==
    /\ callerPc = "parse"
    /\ LET p == ParseI32(args.dimension) IN
         /\ dim' = IF p.ok THEN p.val ELSE 0
         /\ logs' = IF p.ok THEN logs ELSE logs \cup {"parse"}
         /\ callerPc' = IF p.ok THEN "spawn" ELSE "returned"
         /\ result' = IF p.ok THEN result ELSE "Err"
    /\ UNCHANGED <<args, cell, fetchGuard, fetchOutcome, embed_response, spawnResult,
                   handle, unit, conn, db, db0, events>>

ParseDimension ==
    /\ callerPc = "parse"
    /\ LET p == ParseI32(args.dimension) IN
         /\ dim' = IF p.ok THEN p.val ELSE 0
         /\ logs' = IF p.ok THEN logs ELSE logs \cup {"parse"}
    /\ callerPc' = "spawn"
    /\ UNCHANGED <<args, cell, fetchGuard, fetchOutcome, embed_response, spawnResult,
                   result, handle, unit, conn, db, db0, events>>

\* thread::Builder::spawn(move || ...): the closure takes dim and embed_response
Spawn(ok) ==
    /\ callerPc = "spawn"
    /\ IF ok
       THEN /\ spawnResult' = "ok"
            /\ unit' = [NoUnit EXCEPT !.pc = "open", !.state = "Persisting",
                                      !.dim = dim,
                                      !.embeddings = embed_response.embeddings]
            /\ events' = Append(events, Ev("caller", "spawn"))
       ELSE /\ spawnResult' = "err"
            /\ UNCHANGED <<unit, events>>
    /\ callerPc' = "return"
    /\ UNCHANGED <<args, cell, fetchGuard, fetchOutcome, embed_response, dim,
                   result, handle, conn, db, db0, logs>>

SpawnThread == \E ok \in BOOLEAN : Spawn(ok)

\* run_embedding_load joining the thread before it returns
ReturnHandle_Joins ==
    /\ callerPc = "return"
    /\ spawnResult = "ok" => unit.pc = "exited"
    /\ result' = IF spawnResult = "ok" THEN "Ok" ELSE "Err"
    /\ handle' = IF spawnResult = "ok" THEN "held" ELSE "none"
    /\ callerPc' = "returned"
    /\ UNCHANGED <<args, cell, fetchGuard, fetchOutcome, embed_response, dim,
                   spawnResult, unit, conn, db, db0, events, logs>>

\* Ok(run_embed_thread?)
ReturnHandle ==
    /\ callerPc = "return"
    /\ result' = IF spawnResult = "ok" THEN "Ok" ELSE "Err"
    /\ handle' = IF spawnResult = "ok" THEN "held" ELSE "none"
    /\ callerPc' = "returned"
    /\ UNCHANGED <<args, cell, fetchGuard, fetchOutcome, embed_response, dim,
                   spawnResult, unit, conn, db, db0, events, logs>>

\* the caller of run_embedding_load waits on the handle ...
JoinHandle ==
    /\ callerPc = "returned"
    /\ handle = "held"
    /\ unit.pc = "exited"
    /\ handle' = "joined"
    /\ UNCHANGED <<args, cell, callerPc, fetchGuard, fetchOutcome, embed_response, dim,
                   spawnResult, result, unit, conn, db, db0, events, logs>>

\* ... or lets it go
AbandonHandle ==
    /\ callerPc = "returned"
    /\ handle = "held"
    /\ handle' = "dropped"
    /\ UNCHANGED <<args, cell, callerPc, fetchGuard, fetchOutcome, embed_response, dim,
                   spawnResult, result, unit, conn, db, db0, events, logs>>

----------------------------------------------------------------------------
(* the closure run by "embedding_thread" *)

\* the closure logging the connection error and going on without a client
OpenClient_GoesOn(ok) ==
    /\ unit.pc = "open"
    /\ events' = Append(events, Ev("unit", "pg_client"))
    /\ conn' = IF ok THEN "open" ELSE conn
    /\ unit' = [unit EXCEPT !.pc = "lock"]
    /\ logs' = IF ok THEN logs ELSE logs \cup {"pg_client"}
    /\ UNCHANGED <<args, cell, callerPc, fetchGuard, fetchOutcome, embed_response, dim,
                   spawnResult, result, handle, db, db0>>

\* vectordb::pg_vector::pg_client(&db_config)
OpenClient(ok) ==
    /\ unit.pc = "open"
    /\ events' = Append(events, Ev("unit", "pg_client"))
    /\ IF ok
       THEN /\ conn' = "open"
            /\ unit' = [unit EXCEPT !.pc = "lock"]
            /\ logs' = logs
       ELSE /\ conn' = conn
            /\ unit' = [unit EXCEPT !.pc = "exited", !.state = "Failed"]
            /\ logs' = logs \cup {"pg_client"}
    /\ UNCHANGED <<args, cell, callerPc, fetchGuard, fetchOutcome, embed_response, dim,
                   spawnResult, result, handle, db, db0>>

PgClient == \E ok \in BOOLEAN : OpenClient(ok)

\* the closure taking the write lock and calling add_input on the request
UnitAcquireRead_Writes ==
    /\ unit.pc = "lock"
    /\ ~cell.writer
    /\ cell.readers = 0
    /\ cell' = [cell EXCEPT !.writer = TRUE,
                            !.value.input = Append(@, "dog")]
    /\ unit' = [unit EXCEPT !.pc = "create", !.guard = TRUE, !.read = cell'.value]
    /\ events' = Append(events, Ev("unit", "read_lock"))
    /\ UNCHANGED <<args, callerPc, fetchGuard, fetchOutcome, embed_response, dim,
                   spawnResult, result, handle, conn, db, db0, logs>>

\* embed_request_arc_clone.read(): on a poisoned lock the closure returns, and
\* the client goes out of scope without close()
UnitAcquireRead ==
    /\ unit.pc = "lock"
    /\ ~cell.writer
    /\ IF cell.poisoned
       THEN /\ logs' = logs \cup {"unit_lock"}
            /\ unit' = [unit EXCEPT !.pc = "exited", !.state = "Failed"]
            /\ conn' = "dropped"
            /\ UNCHANGED <<cell, events>>
       ELSE /\ cell' = [cell EXCEPT !.readers = @ + 1]
            /\ unit' = [unit EXCEPT !.pc = "create", !.guard = TRUE,
                                    !.read = cell.value]
            /\ events' = Append(events, Ev("unit", "read_lock"))
            /\ UNCHANGED <<logs, conn>>
    /\ UNCHANGED <<args, callerPc, fetchGuard, fetchOutcome, embed_response, dim,
                   spawnResult, result, handle, db, db0>>

\* persist_embedding_data returning the create_table error with `?`: the
\* closure logs it and goes to close(), and load_vector_data is not called
CreateTableStep_Propagates(fail) ==
    /\ unit.pc = "create"
    /\ LET r == EnsureTable(db, unit.dim, fail) IN
         /\ db' = r.db
         /\ logs' = IF r.ok THEN logs ELSE logs \cup {"create_table"}
         /\ unit' = IF r.ok THEN [unit EXCEPT !.pc = "load"]
                    ELSE [unit EXCEPT !.pc = "close", !.persist = "Err"]
    /\ events' = Append(events, <<"unit", "ensure_table", unit.dim>>)
    /\ UNCHANGED <<args, cell, callerPc, fetchGuard, fetchOutcome, embed_response, dim,
                   spawnResult, result, handle, conn, db0>>

\* persist_embedding_data loading the rows first and creating the table after
CreateTableStep_AfterLoad(fail) ==
    /\ unit.pc = "create"
    /\ LET r == InsertRows(db, unit.read, unit.embeddings, fail) IN
         /\ db' = r.db
         /\ logs' = IF r.ok THEN logs ELSE logs \cup {"load_vector_data"}
    /\ events' = Append(events, Ev("unit", "insert_rows"))
    /\ unit' = [unit EXCEPT !.pc = "load"]
    /\ UNCHANGED <<args, cell, callerPc, fetchGuard, fetchOutcome, embed_response, dim,
                   spawnResult, result, handle, conn, db0>>

\* persist_embedding_data, first half: create_table(pg_client, &table, dimension)
CreateTableStep(fail) ==
    /\ unit.pc = "create"
    /\ LET r == EnsureTable(db, unit.dim, fail) IN
         /\ db' = r.db
         /\ logs' = IF r.ok THEN logs ELSE logs \cup {"create_table"}
    /\ events' = Append(events, <<"unit", "ensure_table", unit.dim>>)
    /\ unit' = [unit EXCEPT !.pc = "load"]
    /\ UNCHANGED <<args, cell, callerPc, fetchGuard, fetchOutcome, embed_response, dim,
                   spawnResult, result, handle, conn, db0>>

CreateTable == \E fail \in BOOLEAN : CreateTableStep(fail)

\* the closure returning on a load error, before close()
LoadVectorDataStep_Returns(fail) ==
    /\ unit.pc = "load"
    /\ LET r == InsertRows(db, unit.read, unit.embeddings, fail) IN
         /\ db' = r.db
         /\ logs' = IF r.ok THEN logs ELSE logs \cup {"load_vector_data"}
         /\ IF r.ok
            THEN /\ unit' = [unit EXCEPT !.pc = "close", !.persist = "Ok"]
                 /\ UNCHANGED <<cell, conn>>
            ELSE /\ unit' = [unit EXCEPT !.pc = "exited", !.state = "Failed",
                                         !.persist = "Err", !.guard = FALSE]
                 /\ cell' = [cell EXCEPT !.readers = @ - 1]
                 /\ conn' = "dropped"
    /\ events' = Append(events, Ev("unit", "insert_rows"))
    /\ UNCHANGED <<args, callerPc, fetchGuard, fetchOutcome, embed_response, dim,
                   spawnResult, result, handle, db0>>

\* persist_embedding_data, second half: load_vector_data(...), then Ok(()),
\* which the closure matches
LoadVectorDataStep(fail) ==
    /\ unit.pc = "load"
    /\ LET r == InsertRows(db, unit.read, unit.embeddings, fail) IN
         /\ db' = r.db
         /\ logs' = IF r.ok THEN logs ELSE logs \cup {"load_vector_data"}
    /\ events' = Append(events, Ev("unit", "insert_rows"))
    /\ unit' = [unit EXCEPT !.pc = "close", !.persist = "Ok"]
    /\ UNCHANGED <<args, cell, callerPc, fetchGuard, fetchOutcome, embed_response, dim,
                   spawnResult, result, handle, conn, db0>>

LoadVectorData == \E fail \in BOOLEAN : LoadVectorDataStep(fail)

\* client.close(), then the end of the closure, where the read guard is dropped
CloseStep(ok) ==
    /\ unit.pc = "close"
    /\ conn' = "closed"
    /\ logs' = IF ok THEN logs ELSE logs \cup {"close"}
    /\ events' = Append(events, Ev("unit", "close"))
    /\ cell' = [cell EXCEPT !.readers = @ - 1]
    /\ unit' = [unit EXCEPT !.pc = "exited", !.state = "Done", !.guard = FALSE]
    /\ UNCHANGED <<args, callerPc, fetchGuard, fetchOutcome, embed_response, dim,
                   spawnResult, result, handle, db, db0>>

ClientClose == \E ok \in BOOLEAN : CloseStep(ok)

----------------------------------------------------------------------------
UnitStep ==
    \/ PgClient
    \/ UnitAcquireRead
    \/ CreateTable
    \/ LoadVectorData
    \/ ClientClose

Next ==
    \/ BuildRequest
    \/ FetchAcquireRead
    \/ CreateEmbedRequest
    \/ ParseDimension
    \/ SpawnThread
    \/ ReturnHandle
    \/ JoinHandle
    \/ AbandonHandle
    \/ PgClient
    \/ UnitAcquireRead
    \/ CreateTable
    \/ LoadVectorData
    \/ ClientClose

Spec == Init /\ [][Next]_vars

\* the operating system schedules a spawned thread until it exits, whatever
\* the thread that spawned it does
FairSpec == Spec /\ WF_vars(UnitStep)

----------------------------------------------------------------------------
(* Reading the record of operations *)

Idx(op) == {i \in 1..Len(events) : events[i][2] = op}

Happened(op) == Idx(op) # {}

\* every occurrence of b comes after an occurrence of a
Before(a, b) == \A j \in Idx(b) : \E i \in Idx(a) : i < j

DbOps == {"pg_client", "ensure_table", "insert_rows", "close"}

FetchReturned == callerPc \in {"parse", "spawn", "return", "returned"}

----------------------------------------------------------------------------
(* C1: whatever way the fetch fails (the read of the request cell, the       *)
(* transport, the status, the body), fetch_embedding hands back the empty    *)
(* response {model: "", embeddings: []} as an ordinary value and the failure *)
(* is logged; a response other than the empty one comes only from a fetch    *)
(* that succeeded; and run_embedding_load returns an error to its caller     *)
(* only when the spawn failed, never because the fetch did.                  *)
C1_FetchFailureIsSentinel ==
    /\ FetchReturned =>
         /\ fetchOutcome \in {"ok", "lock_failed"} \cup FetchFailures
         /\ fetchOutcome # "ok" =>
              /\ embed_response = EmptyResponse
              /\ embed_response.model = "" /\ embed_response.embeddings = <<>>
              /\ ("fetch" \in logs \/ "fetch_lock" \in logs)
         /\ embed_response # EmptyResponse => fetchOutcome = "ok"
    /\ (fetchOutcome # "none" /\ fetchOutcome # "ok") => FetchReturned
    /\ result = "Err" => spawnResult = "err"

C1_Witness ==
    /\ fetchOutcome = "transport"
    /\ embed_response = EmptyResponse
    /\ callerPc = "returned"
    /\ result = "Ok"

C3_DimensionParsed ==
    LET p == ParseI32(args.dimension)
        expected == IF p.ok THEN p.val ELSE 0
    IN  /\ callerPc \in {"spawn", "return", "returned"} =>
             /\ dim = expected
             /\ ("parse" \in logs) <=> ~p.ok
             /\ args.dimension = <<"a", "b", "c">> => dim = 0 /\ "parse" \in logs
             /\ args.dimension = <<>> => dim = 0 /\ "parse" \in logs
             /\ args.dimension = <<" ", "2">> => dim = 0 /\ "parse" \in logs
             /\ args.dimension = <<"2">> => dim = 2 /\ "parse" \notin logs
             /\ args.dimension = <<"+", "2">> => dim = 2 /\ "parse" \notin logs
             /\ args.dimension = <<"-", "1">> => dim = -1 /\ "parse" \notin logs
             /\ args.dimension = <<"2","1","4","7","4","8","3","6","4","7">> =>
                    dim = I32Max /\ "parse" \notin logs
             /\ args.dimension = <<"2","1","4","7","4","8","3","6","4","8">> =>
                    dim = 0 /\ "parse" \in logs
        /\ "parse" \in logs => callerPc \in {"spawn", "return", "returned"}
        /\ callerPc = "returned" /\ result = "Err" => spawnResult = "err"
        /\ \A i \in Idx("ensure_table") : events[i][3] = expected
        /\ (~p.ok /\ Happened("ensure_table")) =>
             /\ unit.pc \in {"load", "close", "exited"}
             /\ unit.pc = "exited" =>
                  /\ unit.state = "Done"
                  /\ Happened("insert_rows")
                  /\ Happened("close")

\* the progress part of C3: with a connection, the run gets to Done
C3_ReachesDone ==
    (~ParseI32(args.dimension).ok /\ conn = "open")
        ~> (/\ unit.state = "Done"
            /\ \E i \in Idx("ensure_table") : events[i][3] = 0)

(* C3: a dimension string that does not parse as an i32 ("abc", the empty    *)
(* string, a number past i32::MAX) gives dimension 0 and a logged parse      *)
(* failure, and never an early return: once the closure has its connection, *)
(* create_table is called with 0, its error is only logged, and the closure  *)
(* goes on to load_vector_data and close() and ends Done; a string that      *)
(* parses gives exactly its integer, which is the dimension create_table is  *)
(* called with.                                                              *)
C3_LenientDimension == []C3_DimensionParsed /\ C3_ReachesDone

C3_Witness ==
    /\ args.dimension = <<"a", "b", "c">>
    /\ dim = 0
    /\ "parse" \in logs
    /\ \E i \in Idx("ensure_table") : events[i][3] = 0
    /\ "create_table" \in logs
    /\ unit.pc = "exited"
    /\ unit.state = "Done"

\* the state part of C4: nothing the caller or the unit waits for
C4_ReturnIsEnabled ==
    /\ callerPc = "parse" => ENABLED ParseDimension
    /\ callerPc = "spawn" => ENABLED SpawnThread
    /\ callerPc = "return" => ENABLED ReturnHandle
    /\ unit.pc \notin {"none", "exited"} => ENABLED UnitStep
    /\ result = "Ok" => (unit.pc # "none" /\ handle \in {"held", "joined", "dropped"})
    /\ handle = "joined" => unit.pc = "exited"

\* the step part of C4: the caller's steps leave a spawned unit as it is
C4_NoCancel ==
    (unit.pc # "none" /\ (callerPc' # callerPc \/ handle' # handle)) => unit' = unit

(* C4: run_embedding_load returns the handle without waiting for the         *)
(* persistence unit: at its return statement it can always return, whatever  *)
(* the unit has or has not done; once spawned the unit can always take its   *)
(* next step, whatever the caller does with the handle; returning, joining   *)
(* and abandoning the handle leave the unit untouched (no cancellation); and *)
(* a scheduled unit runs until it has exited.                                *)
C4_HandleWithoutWaiting ==
    /\ []C4_ReturnIsEnabled
    /\ [][C4_NoCancel]_vars
    /\ (unit.pc = "open") ~> (unit.pc = "exited")

C4_Witness ==
    /\ callerPc = "returned"
    /\ result = "Ok"
    /\ handle = "dropped"
    /\ unit.pc = "open"
    /\ ~Happened("pg_client")

(* C5: the EmbedRequest in the cell is never changed after the cell is       *)
(* built: the request the fetch reads and the request the persistence unit   *)
(* reads both equal the one built from the caller's arguments, and nothing   *)
(* ever holds the write lock on the cell.                                    *)
C5_RequestNeverMutated ==
    /\ ~cell.writer
    /\ callerPc # "start" =>
         /\ cell.value.model = args.embed_model
         /\ cell.value.input = args.input_list
    /\ \A i \in Idx("fetch_start") :
         /\ events[i][3].model = args.embed_model
         /\ events[i][3].input = args.input_list
    /\ unit.pc \in {"create", "load", "close"} \/ unit.state = "Done" =>
         /\ unit.read.model = args.embed_model
         /\ unit.read.input = args.input_list
         /\ unit.read = cell.value

C5_Witness ==
    /\ Len(args.input_list) = 2
    /\ unit.state = "Done"
    /\ unit.read.input = args.input_list
    /\ Happened("fetch_start")

(* C6: whenever the persistence unit has opened a connection and has exited, *)
(* close() has been called on that connection, whether create_table and      *)
(* load_vector_data succeeded or failed; and every database operation is     *)
(* performed by the persistence unit, none by the caller's thread.           *)
C6_ConnectionClosed ==
    /\ (unit.pc = "exited" /\ conn # "none") =>
         /\ conn = "closed"
         /\ Happened("close")
    /\ conn \in {"none", "open", "closed"}
    /\ conn = "open" => unit.pc \in {"lock", "create", "load", "close"}
    /\ \A i \in 1..Len(events) : events[i][2] \in DbOps => events[i][1] = "unit"
    /\ Happened("close") => conn = "closed"

C6_Witness ==
    /\ unit.pc = "exited"
    /\ conn = "closed"
    /\ "create_table" \in logs
    /\ "load_vector_data" \in logs

(* C7: the stages of one run happen in a fixed order: the fetch has          *)
(* completed before the persistence unit is spawned, so no database          *)
(* operation happens while the fetch is in flight; inside the unit the       *)
(* connection is opened, then the read lock taken, then create_table called, *)
(* then load_vector_data, then close(); load_vector_data is never called     *)
(* before create_table has been attempted, nor close() before                *)
(* load_vector_data has been attempted; each step happens at most once.      *)
C7_StageOrder ==
    /\ Before("fetch_start", "fetch_done")
    /\ Before("fetch_done", "spawn")
    /\ Before("spawn", "pg_client")
    /\ Before("pg_client", "read_lock")
    /\ Before("read_lock", "ensure_table")
    /\ Before("ensure_table", "insert_rows")
    /\ Before("insert_rows", "close")
    /\ \A op \in DbOps \cup {"fetch_start", "fetch_done", "spawn", "read_lock"} :
         Cardinality(Idx(op)) <= 1
    /\ callerPc \in {"start", "fetch_lock", "fetching", "parse"} =>
         /\ unit.pc = "none"
         /\ conn = "none"
         /\ \A op \in DbOps : ~Happened(op)
    /\ unit.pc = "exited" /\ unit.state = "Done" =>
         /\ Happened("ensure_table")
         /\ Happened("insert_rows")
         /\ Happened("close")

C7_Witness ==
    /\ Happened("close")
    /\ Len(events) = 8
    /\ events[8][2] = "close"
    /\ events[6][2] = "ensure_table"

(* C8: when opening the connection fails (or the read lock on the cell       *)
(* fails) inside the persistence unit, the failure is logged and the unit    *)
(* has exited in the Failed state, for good: create_table, load_vector_data  *)
(* and close() are never called in that run and the table is what it was     *)
(* before the run.                                                           *)
C8_EarlyExit ==
    /\ ("pg_client" \in logs \/ "unit_lock" \in logs) =>
         /\ unit.pc = "exited"
         /\ unit.state = "Failed"
         /\ ~Happened("ensure_table")
         /\ ~Happened("insert_rows")
         /\ ~Happened("close")
         /\ db = db0
         /\ conn # "closed"
    /\ unit.state = "Failed" =>
         /\ unit.pc = "exited"
         /\ ("pg_client" \in logs \/ "unit_lock" \in logs)

C8_Witness ==
    /\ "pg_client" \in logs
    /\ unit.state = "Failed"
    /\ handle = "joined"
    /\ Len(unit.embeddings) = 2

(* C9: persistence errors stay with their operation: after a logged          *)
(* create_table failure load_vector_data is still called, after a logged     *)
(* load_vector_data failure close() is still called, persist_embedding_data  *)
(* returns Ok in every case, and the unit ends Done, not Failed.             *)
C9_ErrorsIsolated ==
    /\ "create_table" \in logs =>
         /\ unit.pc \in {"load", "close", "exited"}
         /\ unit.pc \in {"close", "exited"} => Happened("insert_rows")
    /\ "load_vector_data" \in logs =>
         /\ unit.pc \in {"close", "exited"}
         /\ unit.pc = "exited" => Happened("close")
    /\ "close" \in logs => unit.pc = "exited"
    /\ Happened("insert_rows") => unit.persist = "Ok"
    /\ unit.persist \in {"none", "Ok"}
    /\ (unit.pc = "exited" /\ Happened("ensure_table")) =>
         /\ unit.state = "Done"
         /\ unit.persist = "Ok"
         /\ Happened("insert_rows")
         /\ Happened("close")

C9_Witness ==
    /\ {"create_table", "load_vector_data", "close"} \subseteq logs
    /\ unit.pc = "exited"
    /\ unit.state = "Done"
    /\ unit.persist = "Ok"

(* C10: the read guard of fetch_embedding is held for the whole round trip   *)
(* and is gone before the persistence unit exists, so at most one read guard *)
(* on the cell exists at any time; the lock is never write-held and never    *)
(* poisoned, so both read acquisitions can always go ahead (no deadlock on   *)
(* the cell) and neither lock-failure branch is ever taken.                  *)
C10_ReadGuards ==
    /\ cell.readers = (IF fetchGuard THEN 1 ELSE 0) + (IF unit.guard THEN 1 ELSE 0)
    /\ cell.readers <= 1
    /\ callerPc = "fetching" <=> fetchGuard
    /\ unit.pc # "none" => ~fetchGuard
    /\ unit.guard <=> unit.pc \in {"create", "load", "close"}
    /\ ~cell.writer
    /\ ~cell.poisoned
    /\ callerPc = "fetch_lock" => ENABLED FetchAcquireRead
    /\ unit.pc = "lock" => ENABLED UnitAcquireRead
    /\ "fetch_lock" \notin logs
    /\ "unit_lock" \notin logs
    /\ fetchOutcome # "lock_failed"
    /\ conn # "dropped"

C10_Witness ==
    /\ unit.guard
    /\ cell.readers = 1
    /\ Happened("fetch_done")
    /\ callerPc = "returned"

====
